---- MODULE Spec2Model ----
(***************************************************************************)
(* Model of the outer-loop run orchestrator (harness/ralph_loop.py) and    *)
(* its persisted run state (harness/run_state.py).                         *)
(*                                                                         *)
(* Money is counted in whole cost units, wall time in seconds, so that the *)
(* float arithmetic of the source is exact integer arithmetic here.        *)
(* Python's None is NoneStr for string fields and Unset for number fields. *)
(***************************************************************************)
EXTENDS Integers, Sequences, FiniteSets, TLC

\* ---------------------------------------------------------------- bounds
MaxLaunches == 2
MaxInvocations == 2

\* -------------------------------------------------------------- constants
NoneStr == "None"
Unset == 0 - 1

STATE_INITIALIZED == "initialized"
STATE_RUNNING == "running"
STATE_STOPPED == "stopped"
STATE_FAILED == "failed"

Max(a, b) == IF a >= b THEN a ELSE b

\* ------------------------------------------------------------ input sets
Providers == {"claude", "codex"}
SessionIds == {"s1", "s2"}
\* total_cost_usd of a terminal result (Unset: the SDK reported None)
TotalCosts == {Unset, 1, 2}
\* str(e) of an error raised inside the try block around the stream: by the
\* SDK, by the append of an sdk.message event, or by a checkpoint write
ErrorTexts == {"No space left on device"}

\* ------------------------------------------------- usage payloads (tokens)
\* A JSON value is a tagged record: num, str, dict (sequence of key/value
\* items) or list (sequence of values).
Num(n) == [t |-> "num", v |-> n]
Str == [t |-> "str"]
Dict(items) == [t |-> "dict", items |-> items]
List(items) == [t |-> "list", items |-> items]
Item(k, v) == [k |-> k, v |-> v]

\* "token" in key.lower()
KeyMentionsToken(k) ==
    k \in {"total_tokens", "totalTokens", "input_tokens", "output_tokens",
           "cache_tokens", "Token_Count"}

NoUsage == [t |-> "none"]
UsageTotal == Dict(<<Item("total_tokens", Num(2)), Item("input_tokens", Num(1)),
                     Item("output_tokens", Num(1))>>)
UsageFlat == Dict(<<Item("input_tokens", Num(2)), Item("service_tier", Str)>>)
UsageNested == Dict(<<Item("model", Dict(<<Item("input_tokens", Num(1)),
                                           Item("requests", Num(7))>>)),
                      Item("other", List(<<Dict(<<Item("cache_tokens", Num(1))>>)>>))>>)
UsageEmpty == Dict(<<>>)
Usages == {NoUsage, UsageTotal, UsageFlat, UsageNested, UsageEmpty}

RECURSIVE Walk(_)
RECURSIVE WalkItems(_, _)
RECURSIVE WalkList(_, _)
Walk(node) ==
    IF node.t = "dict" THEN WalkItems(node.items, 1)
    ELSE IF node.t = "list" THEN WalkList(node.items, 1)
    ELSE 0
WalkItems(items, i) ==
    IF i > Len(items) THEN 0
    ELSE (IF items[i].v.t = "num" /\ KeyMentionsToken(items[i].k)
             THEN items[i].v.v
             ELSE Walk(items[i].v))
         + WalkItems(items, i + 1)
WalkList(items, i) ==
    IF i > Len(items) THEN 0
    ELSE Walk(items[i]) + WalkList(items, i + 1)

\* usage.get(preferred) for the two preferred keys, in order
RECURSIVE Lookup(_, _, _)
Lookup(items, key, i) ==
    IF i > Len(items) THEN [t |-> "none"]
    ELSE IF items[i].k = key THEN items[i].v
    ELSE Lookup(items, key, i + 1)

ExtractTokenTotal(usage) ==
    IF usage.t = "none" \/ (usage.t = "dict" /\ Len(usage.items) = 0) THEN 0
    ELSE IF Lookup(usage.items, "total_tokens", 1).t = "num"
            THEN Lookup(usage.items, "total_tokens", 1).v
    ELSE IF Lookup(usage.items, "totalTokens", 1).t = "num"
            THEN Lookup(usage.items, "totalTokens", 1).v
    ELSE Walk(usage)

\* ------------------------------------------------------------- run state
RunLimits(cost, minutes, tokens, iterations) ==
    [max_cost_usd |-> cost, max_time_minutes |-> minutes,
     max_tokens_total |-> tokens, max_iterations |-> iterations]

\* RunState.initialize
Initialize(provider, limits, now) ==
    [schema_version |-> 1,
     provider |-> provider,
     status |-> STATE_INITIALIZED,
     created_at |-> now,
     updated_at |-> now,
     started_at |-> Unset,
     stopped_at |-> Unset,
     iteration |-> 0,
     session_id |-> NoneStr,
     session_total_cost_usd |-> 0,
     cumulative_cost_usd |-> 0,
     cumulative_tokens |-> 0,
     cumulative_wall_time_seconds |-> 0,
     last_result_subtype |-> NoneStr,
     last_stop_reason |-> NoneStr,
     last_stop_detail |-> NoneStr,
     limits |-> limits,
     resume_history |-> <<>>]

\* RunState.mark_updated
MarkUpdated(s, now) == [s EXCEPT !.updated_at = now]

\* add_resume_event keeping only the newest entry
AddResumeEvent_Replaces(s, mode, details, now) ==
    MarkUpdated([s EXCEPT !.resume_history =
                     <<[timestamp |-> now, mode |-> mode, details |-> details]>>],
                now)

\* RunState.add_resume_event
AddResumeEvent(s, mode, details, now) ==
    MarkUpdated([s EXCEPT !.resume_history =
                     Append(@, [timestamp |-> now, mode |-> mode, details |-> details])],
                now)

\* RunState.as_dict (dataclasses.asdict): the document, key by key
AsDict(s) ==
    [schema_version |-> s.schema_version,
     provider |-> s.provider,
     status |-> s.status,
     created_at |-> s.created_at,
     updated_at |-> s.updated_at,
     started_at |-> s.started_at,
     stopped_at |-> s.stopped_at,
     iteration |-> s.iteration,
     session_id |-> s.session_id,
     session_total_cost_usd |-> s.session_total_cost_usd,
     cumulative_cost_usd |-> s.cumulative_cost_usd,
     cumulative_tokens |-> s.cumulative_tokens,
     cumulative_wall_time_seconds |-> s.cumulative_wall_time_seconds,
     last_result_subtype |-> s.last_result_subtype,
     last_stop_reason |-> s.last_stop_reason,
     last_stop_detail |-> s.last_stop_detail,
     limits |-> [max_cost_usd |-> s.limits.max_cost_usd,
                 max_time_minutes |-> s.limits.max_time_minutes,
                 max_tokens_total |-> s.limits.max_tokens_total,
                 max_iterations |-> s.limits.max_iterations],
     resume_history |-> [i \in 1..Len(s.resume_history) |->
                            [timestamp |-> s.resume_history[i].timestamp,
                             mode |-> s.resume_history[i].mode,
                             details |-> s.resume_history[i].details]]]

\* save_state: stamps updated_at, then writes the document
SaveState(s, now) == AsDict(MarkUpdated(s, now))

\* from_dict ignoring the resume_history key
FromDict_NoHistory(d) ==
    [schema_version |-> d.schema_version,
     provider |-> d.provider,
     status |-> d.status,
     created_at |-> d.created_at,
     updated_at |-> d.updated_at,
     started_at |-> d.started_at,
     stopped_at |-> d.stopped_at,
     iteration |-> d.iteration,
     session_id |-> d.session_id,
     session_total_cost_usd |-> d.session_total_cost_usd,
     cumulative_cost_usd |-> d.cumulative_cost_usd,
     cumulative_tokens |-> d.cumulative_tokens,
     cumulative_wall_time_seconds |-> d.cumulative_wall_time_seconds,
     last_result_subtype |-> d.last_result_subtype,
     last_stop_reason |-> d.last_stop_reason,
     last_stop_detail |-> d.last_stop_detail,
     limits |-> RunLimits(d.limits.max_cost_usd, d.limits.max_time_minutes,
                          d.limits.max_tokens_total, d.limits.max_iterations),
     resume_history |-> <<>>]

\* load_state / RunState.from_dict: every field is read back and converted
FromDict(d) ==
    [schema_version |-> d.schema_version,
     provider |-> d.provider,
     status |-> d.status,
     created_at |-> d.created_at,
     updated_at |-> d.updated_at,
     started_at |-> d.started_at,
     stopped_at |-> d.stopped_at,
     iteration |-> d.iteration,
     session_id |-> d.session_id,
     session_total_cost_usd |-> d.session_total_cost_usd,
     cumulative_cost_usd |-> d.cumulative_cost_usd,
     cumulative_tokens |-> d.cumulative_tokens,
     cumulative_wall_time_seconds |-> d.cumulative_wall_time_seconds,
     last_result_subtype |-> d.last_result_subtype,
     last_stop_reason |-> d.last_stop_reason,
     last_stop_detail |-> d.last_stop_detail,
     limits |-> RunLimits(d.limits.max_cost_usd, d.limits.max_time_minutes,
                          d.limits.max_tokens_total, d.limits.max_iterations),
     resume_history |-> [i \in 1..Len(d.resume_history) |->
                            [timestamp |-> d.resume_history[i].timestamp,
                             mode |-> d.resume_history[i].mode,
                             details |-> d.resume_history[i].details]]]


\* -------------------------------------------------------- budget evaluator
Reason(stop, reason, detail) == [stop |-> stop, reason |-> reason, detail |-> detail]

\* f"minutes={minutes:.2f}" with minutes = seconds / 60.0
MinutesText(seconds) ==
    LET frac == ((seconds % 60) * 100) \div 60
    IN ToString(seconds \div 60) \o "." \o
       (IF frac < 10 THEN "0" ELSE "") \o ToString(frac)

\* _state_stop_check without its cost branch
StateStopCheck_SkipsCost(s) ==
    IF s.limits.max_iterations # Unset /\ s.iteration >= s.limits.max_iterations
      THEN Reason(TRUE, "max_iterations_reached", "iteration=" \o ToString(s.iteration))
    ELSE IF s.limits.max_tokens_total # Unset
            /\ s.cumulative_tokens >= s.limits.max_tokens_total
      THEN Reason(TRUE, "max_tokens_reached", "tokens=" \o ToString(s.cumulative_tokens))
    ELSE IF s.limits.max_time_minutes # Unset
            /\ s.cumulative_wall_time_seconds >= 60 * s.limits.max_time_minutes
      THEN Reason(TRUE, "max_time_reached",
                  "minutes=" \o MinutesText(s.cumulative_wall_time_seconds))
    ELSE Reason(FALSE, NoneStr, NoneStr)

\* _state_stop_check comparing the iteration count with > instead of >=
StateStopCheck_OffByOne(s) ==
    IF s.limits.max_iterations # Unset /\ s.iteration > s.limits.max_iterations
      THEN Reason(TRUE, "max_iterations_reached", "iteration=" \o ToString(s.iteration))
    ELSE IF s.limits.max_cost_usd # Unset /\ s.cumulative_cost_usd >= s.limits.max_cost_usd
      THEN Reason(TRUE, "max_cost_reached", "cost_usd=" \o ToString(s.cumulative_cost_usd))
    ELSE IF s.limits.max_tokens_total # Unset
            /\ s.cumulative_tokens >= s.limits.max_tokens_total
      THEN Reason(TRUE, "max_tokens_reached", "tokens=" \o ToString(s.cumulative_tokens))
    ELSE IF s.limits.max_time_minutes # Unset
            /\ s.cumulative_wall_time_seconds >= 60 * s.limits.max_time_minutes
      THEN Reason(TRUE, "max_time_reached",
                  "minutes=" \o MinutesText(s.cumulative_wall_time_seconds))
    ELSE Reason(FALSE, NoneStr, NoneStr)

\* _state_stop_check testing the cost ceiling before the iteration ceiling
StateStopCheck_CostFirst(s) ==
    IF s.limits.max_cost_usd # Unset /\ s.cumulative_cost_usd >= s.limits.max_cost_usd
      THEN Reason(TRUE, "max_cost_reached", "cost_usd=" \o ToString(s.cumulative_cost_usd))
    ELSE IF s.limits.max_iterations # Unset /\ s.iteration >= s.limits.max_iterations
      THEN Reason(TRUE, "max_iterations_reached", "iteration=" \o ToString(s.iteration))
    ELSE IF s.limits.max_tokens_total # Unset
            /\ s.cumulative_tokens >= s.limits.max_tokens_total
      THEN Reason(TRUE, "max_tokens_reached", "tokens=" \o ToString(s.cumulative_tokens))
    ELSE IF s.limits.max_time_minutes # Unset
            /\ s.cumulative_wall_time_seconds >= 60 * s.limits.max_time_minutes
      THEN Reason(TRUE, "max_time_reached",
                  "minutes=" \o MinutesText(s.cumulative_wall_time_seconds))
    ELSE Reason(FALSE, NoneStr, NoneStr)

\* _state_stop_check without its iteration branch
StateStopCheck_IgnoresIterations(s) ==
    IF s.limits.max_cost_usd # Unset /\ s.cumulative_cost_usd >= s.limits.max_cost_usd
      THEN Reason(TRUE, "max_cost_reached", "cost_usd=" \o ToString(s.cumulative_cost_usd))
    ELSE IF s.limits.max_tokens_total # Unset
            /\ s.cumulative_tokens >= s.limits.max_tokens_total
      THEN Reason(TRUE, "max_tokens_reached", "tokens=" \o ToString(s.cumulative_tokens))
    ELSE IF s.limits.max_time_minutes # Unset
            /\ s.cumulative_wall_time_seconds >= 60 * s.limits.max_time_minutes
      THEN Reason(TRUE, "max_time_reached",
                  "minutes=" \o MinutesText(s.cumulative_wall_time_seconds))
    ELSE Reason(FALSE, NoneStr, NoneStr)

\* _state_stop_check reading an iteration ceiling of 0 as no ceiling
StateStopCheck_ZeroUnlimited(s) ==
    IF s.limits.max_iterations # Unset /\ s.limits.max_iterations # 0
          /\ s.iteration >= s.limits.max_iterations
      THEN Reason(TRUE, "max_iterations_reached", "iteration=" \o ToString(s.iteration))
    ELSE IF s.limits.max_cost_usd # Unset /\ s.cumulative_cost_usd >= s.limits.max_cost_usd
      THEN Reason(TRUE, "max_cost_reached", "cost_usd=" \o ToString(s.cumulative_cost_usd))
    ELSE IF s.limits.max_tokens_total # Unset
            /\ s.cumulative_tokens >= s.limits.max_tokens_total
      THEN Reason(TRUE, "max_tokens_reached", "tokens=" \o ToString(s.cumulative_tokens))
    ELSE IF s.limits.max_time_minutes # Unset
            /\ s.cumulative_wall_time_seconds >= 60 * s.limits.max_time_minutes
      THEN Reason(TRUE, "max_time_reached",
                  "minutes=" \o MinutesText(s.cumulative_wall_time_seconds))
    ELSE Reason(FALSE, NoneStr, NoneStr)

\* _state_stop_check
StateStopCheck(s) ==
    IF s.limits.max_iterations # Unset /\ s.iteration >= s.limits.max_iterations
      THEN Reason(TRUE, "max_iterations_reached", "iteration=" \o ToString(s.iteration))
    ELSE IF s.limits.max_cost_usd # Unset /\ s.cumulative_cost_usd >= s.limits.max_cost_usd
      THEN Reason(TRUE, "max_cost_reached", "cost_usd=" \o ToString(s.cumulative_cost_usd))
    ELSE IF s.limits.max_tokens_total # Unset
            /\ s.cumulative_tokens >= s.limits.max_tokens_total
      THEN Reason(TRUE, "max_tokens_reached", "tokens=" \o ToString(s.cumulative_tokens))
    ELSE IF s.limits.max_time_minutes # Unset
            /\ s.cumulative_wall_time_seconds >= 60 * s.limits.max_time_minutes
      THEN Reason(TRUE, "max_time_reached",
                  "minutes=" \o MinutesText(s.cumulative_wall_time_seconds))
    ELSE Reason(FALSE, NoneStr, NoneStr)

\* _remaining_budget_usd
RemainingBudgetUsd(s) ==
    IF s.limits.max_cost_usd = Unset THEN Unset
    ELSE Max(s.limits.max_cost_usd - s.cumulative_cost_usd, 0)

\* _compute_cost_delta without the clamp at zero
ComputeCostDelta_Unclamped(result_total, s, result_session) ==
    IF result_total = Unset THEN 0
    ELSE IF s.session_id # NoneStr /\ result_session = s.session_id
      THEN result_total - s.session_total_cost_usd
    ELSE result_total

\* _compute_cost_delta taking the reported total as the delta in every case
ComputeCostDelta_FullTotal(result_total, s, result_session) ==
    IF result_total = Unset THEN 0 ELSE Max(result_total, 0)

\* _compute_cost_delta
ComputeCostDelta(result_total, s, result_session) ==
    IF result_total = Unset THEN 0
    ELSE IF s.session_id # NoneStr /\ result_session = s.session_id
      THEN Max(result_total - s.session_total_cost_usd, 0)
    ELSE Max(result_total, 0)

\* _result_stop_reason
ResultStopReason(result_subtype, is_error) ==
    IF result_subtype = "error_max_budget_usd"
      THEN [reason |-> "sdk_max_budget_reached", detail |-> result_subtype]
    ELSE IF result_subtype = "error_max_turns"
      THEN [reason |-> "sdk_max_turns_reached", detail |-> result_subtype]
    ELSE IF is_error THEN [reason |-> "sdk_error", detail |-> result_subtype]
    ELSE [reason |-> NoneStr, detail |-> NoneStr]

\* stop_reason.startswith("sdk_")
StartsWithSdkMax_AnySdk(reason) ==
    reason \in {"sdk_max_budget_reached", "sdk_max_turns_reached", "sdk_error"}

\* stop_reason.startswith("sdk_max_")
StartsWithSdkMax(reason) == reason \in {"sdk_max_budget_reached", "sdk_max_turns_reached"}

\* ------------------------------------------------------- launch overrides
\* RalphLoopConfig
LoopConfig(cost, minutes, tokens, iterations, fresh, ecost, eminutes, etokens, eiterations) ==
    [max_cost_usd |-> cost, max_time_minutes |-> minutes, max_tokens_total |-> tokens,
     max_iterations |-> iterations, new_session_from_checkpoint |-> fresh,
     extend_cost_usd |-> ecost, extend_time_minutes |-> eminutes,
     extend_tokens_total |-> etokens, extend_iterations |-> eiterations]

DefaultConfig == LoopConfig(Unset, Unset, Unset, Unset, FALSE, 0, 0, 0, 0)

\* configurations the `run` command builds (absolute ceilings only)
RunConfigs ==
    {DefaultConfig,
     LoopConfig(Unset, Unset, Unset, 0, FALSE, 0, 0, 0, 0),
     LoopConfig(1, 1, 2, 1, FALSE, 0, 0, 0, 0)}

\* configurations the `resume` command builds (extensions only)
ResumeConfigs ==
    {DefaultConfig,
     LoopConfig(Unset, Unset, Unset, Unset, TRUE, 0, 0, 0, 0),
     LoopConfig(Unset, Unset, Unset, Unset, FALSE, 1, 1, 2, 1)}

\* RalphLoopRunner._apply_run_overrides
ApplyRunOverrides(s, c) ==
    [s EXCEPT !.limits =
        [max_cost_usd |-> IF c.max_cost_usd # Unset THEN c.max_cost_usd ELSE @.max_cost_usd,
         max_time_minutes |-> IF c.max_time_minutes # Unset THEN c.max_time_minutes
                              ELSE @.max_time_minutes,
         max_tokens_total |-> IF c.max_tokens_total # Unset THEN c.max_tokens_total
                              ELSE @.max_tokens_total,
         max_iterations |-> IF c.max_iterations # Unset THEN c.max_iterations
                            ELSE @.max_iterations]]

\* an `extend_*` branch that replaces the ceiling instead of raising it
Extend_Resets(ceiling, extension) ==
    IF extension = 0 THEN ceiling ELSE extension

\* one `extend_*` branch of _apply_resume_overrides for cost, time and tokens
Extend(ceiling, extension) ==
    IF extension = 0 THEN ceiling
    ELSE IF ceiling = Unset THEN extension
    ELSE ceiling + extension

\* the `extend_iterations` branch establishing a ceiling counted from zero
ExtendIterations_FromZero(ceiling, iteration, extension) ==
    IF extension = 0 THEN ceiling
    ELSE IF ceiling = Unset THEN extension
    ELSE ceiling + extension

\* the `extend_iterations` branch of _apply_resume_overrides
ExtendIterations(ceiling, iteration, extension) ==
    IF extension = 0 THEN ceiling
    ELSE IF ceiling = Unset THEN iteration + extension
    ELSE ceiling + extension

\* the `details` map _apply_resume_overrides records (0 / FALSE: key absent)
ResumeDetails(c) ==
    [extend_cost_usd |-> c.extend_cost_usd,
     extend_time_minutes |-> c.extend_time_minutes,
     extend_tokens_total |-> c.extend_tokens_total,
     extend_iterations |-> c.extend_iterations,
     new_session_from_checkpoint |-> c.new_session_from_checkpoint]

\* the new_session_from_checkpoint branch zeroing the session cost only
FreshSession_KeepsId(s, c) ==
    IF c.new_session_from_checkpoint
      THEN [s EXCEPT !.session_total_cost_usd = 0]
    ELSE s

\* the new_session_from_checkpoint branch of _apply_resume_overrides
FreshSession(s, c) ==
    IF c.new_session_from_checkpoint
      THEN [s EXCEPT !.session_id = NoneStr, !.session_total_cost_usd = 0]
    ELSE s

\* RalphLoopRunner._apply_resume_overrides
ApplyResumeOverrides(s, c, now) ==
    LET extended ==
            [s EXCEPT !.limits =
                [max_cost_usd |-> Extend(@.max_cost_usd, c.extend_cost_usd),
                 max_time_minutes |-> Extend(@.max_time_minutes, c.extend_time_minutes),
                 max_tokens_total |-> Extend(@.max_tokens_total, c.extend_tokens_total),
                 max_iterations |-> ExtendIterations(@.max_iterations, s.iteration,
                                                     c.extend_iterations)]]
    IN AddResumeEvent(FreshSession(extended, c), "resume", ResumeDetails(c), now)

\* the guard of the `run` branch, never rejecting
RunRejected_Never(s) == FALSE

\* the guard of the `run` branch, also rejecting a state that was launched
RunRejected_OnceLaunched(s) ==
    s.status # STATE_INITIALIZED \/ s.iteration > 0 \/ s.session_id # NoneStr

\* the guard of the `run` branch of _load_or_initialize_state
RunRejected(s) == s.iteration > 0 \/ s.session_id # NoneStr

\* a launch that stamps started_at but leaves the status as loaded
Started_KeepsStatus(s, now) ==
    [s EXCEPT !.started_at = IF @ = Unset THEN now ELSE @]

\* state.started_at = state.started_at or utc_now_iso()
Started(s, now) ==
    [s EXCEPT !.status = STATE_RUNNING,
              !.started_at = IF @ = Unset THEN now ELSE @]

\* RalphLoopRunner._load_or_initialize_state, after the state is loaded:
\* the state it saves and returns, or an error
LoadOrInitializeState(loaded, m, c, now) ==
    IF loaded.provider # "claude" THEN [ok |-> FALSE, state |-> loaded]
    ELSE IF m = "run"
      THEN IF RunRejected(loaded) THEN [ok |-> FALSE, state |-> loaded]
           ELSE [ok |-> TRUE,
                 state |-> AddResumeEvent(ApplyRunOverrides(Started(loaded, now), c),
                                          "run", [kind |-> "fresh_start"], now)]
    ELSE [ok |-> TRUE, state |-> ApplyResumeOverrides(Started(loaded, now), c, now)]

\* ------------------------------------------------- execution configuration
\* a key missing from the manifest, or an override the caller did not give
Absent == "absent"
DEFAULT_CONTAINER_IMAGE == "kalshi-lab-claude-runner:latest"

\* dict.get(key, default)
Get(v, default) == IF v = Absent THEN default ELSE v

\* str.lower on the provider names that occur
Lower(p) == IF p = "Claude" THEN "claude" ELSE p

\* the execution block of the manifest, the container keys beside the mode
ExecutionBlock(mode, runtime, image, network, bypass) ==
    [mode |-> mode, runtime |-> runtime, image |-> image, network |-> network,
     use_bypass_permissions |-> bypass]

\* ExecutionOverrides
ExecutionOverrides(mode, runtime, network, bypass) ==
    [mode |-> mode, runtime |-> runtime, network |-> network,
     use_bypass_permissions |-> bypass]

ExecutionError(text) == [ok |-> FALSE, error |-> text]

\* resolve_execution_config with the provider rule winning over the override
ResolveExecutionConfig_RuleFirst(provider, block, o) ==
    LET mode == IF o.mode # Absent THEN o.mode ELSE Get(block.mode, "host")
        runtime == IF o.runtime # Absent THEN o.runtime ELSE Get(block.runtime, "docker")
        given == IF o.network # Absent THEN o.network ELSE Get(block.network, "none")
        network == IF Lower(provider) = "claude" /\ given = "none" THEN "default"
                   ELSE given
        bypass == IF o.use_bypass_permissions # Absent THEN o.use_bypass_permissions = "True"
                  ELSE Get(block.use_bypass_permissions, "False") = "True"
    IN IF mode \notin {"host", "container"} THEN ExecutionError("Invalid execution mode")
       ELSE IF runtime \notin {"docker", "podman"}
         THEN ExecutionError("Invalid container runtime")
       ELSE IF network \notin {"none", "default"}
         THEN ExecutionError("Invalid container network mode")
       ELSE [ok |-> TRUE, mode |-> mode, runtime |-> runtime,
             image |-> Get(block.image, DEFAULT_CONTAINER_IMAGE), network |-> network,
             use_bypass_permissions |-> bypass]

\* resolve_execution_config
ResolveExecutionConfig(provider, block, o) ==
    LET mode == IF o.mode # Absent THEN o.mode ELSE Get(block.mode, "host")
        runtime == IF o.runtime # Absent THEN o.runtime ELSE Get(block.runtime, "docker")
        network == IF o.network # Absent THEN o.network
                   ELSE IF Lower(provider) = "claude" /\ Get(block.network, "none") = "none"
                     THEN "default"
                   ELSE Get(block.network, "none")
        bypass == IF o.use_bypass_permissions # Absent THEN o.use_bypass_permissions = "True"
                  ELSE Get(block.use_bypass_permissions, "False") = "True"
    IN IF mode \notin {"host", "container"} THEN ExecutionError("Invalid execution mode")
       ELSE IF runtime \notin {"docker", "podman"}
         THEN ExecutionError("Invalid container runtime")
       ELSE IF network \notin {"none", "default"}
         THEN ExecutionError("Invalid container network mode")
       ELSE [ok |-> TRUE, mode |-> mode, runtime |-> runtime,
             image |-> Get(block.image, DEFAULT_CONTAINER_IMAGE), network |-> network,
             use_bypass_permissions |-> bypass]

\* provider names a manifest can carry for the agent
AgentProviders == {"claude", "Claude", "codex"}

\* execution blocks: keys absent, valid, or (mode, runtime) not supported
ExecutionBlocks ==
    {ExecutionBlock(m, r, i, n, b) :
        m \in {Absent, "container", "vm"}, r \in {Absent, "podman", "nerdctl"},
        i \in {Absent, "runner:dev"}, n \in {Absent, "none", "default"},
        b \in {Absent, "True"}}

\* what _build_execution_overrides makes of the command line options
OverrideSets ==
    {ExecutionOverrides(m, r, n, b) :
        m \in {Absent, "host", "container"}, r \in {Absent, "docker", "podman"},
        n \in {Absent, "none", "default"}, b \in {Absent, "True", "False"}}

Unresolved == [ok |-> FALSE, error |-> "unresolved"]
NoExecution ==
    [provider |-> "claude",
     block |-> ExecutionBlock(Absent, Absent, Absent, Absent, Absent),
     overrides |-> ExecutionOverrides(Absent, Absent, Absent, Absent),
     config |-> Unresolved]

\* ------------------------------------------------------ worker arguments
WORKER_RUN_DIR == "/workspace/run"
PERMISSION_BYPASS == "bypassPermissions"

\* str() of a float amount: costs are whole units here, so 1.0 reads "1.0"
FloatText(x) == ToString(x) \o ".0"

\* the amounts a command line option is parsed to
Amounts == 0..4

\* click's FLOAT and INT conversions of an option value
ParseFloat(txt) == CHOOSE x \in Amounts : FloatText(x) = txt
ParseInt(txt) == CHOOSE n \in Amounts : ToString(n) = txt

\* worker_args.extend([flag, str(value)]) when the condition holds
Flag(cond, name, text) == IF cond THEN <<name, text>> ELSE <<>>

\* build_container_launch_spec giving each ceiling only when it is truthy
WorkerArgs_Truthy(m, c, bypass) ==
    <<"worker", "--run-dir", WORKER_RUN_DIR, "--run-id", "run", "--mode", m>>
    \o (IF m = "run"
          THEN Flag(c.max_cost_usd > 0, "--max-cost-usd", FloatText(c.max_cost_usd))
               \o Flag(c.max_time_minutes > 0, "--max-time-minutes",
                       ToString(c.max_time_minutes))
               \o Flag(c.max_tokens_total > 0, "--max-tokens-total",
                       ToString(c.max_tokens_total))
               \o Flag(c.max_iterations > 0, "--max-iterations",
                       ToString(c.max_iterations))
        ELSE Flag(c.extend_cost_usd # 0, "--extend-cost-usd", FloatText(c.extend_cost_usd))
             \o Flag(c.extend_time_minutes # 0, "--extend-time-minutes",
                     ToString(c.extend_time_minutes))
             \o Flag(c.extend_tokens_total # 0, "--extend-tokens-total",
                     ToString(c.extend_tokens_total))
             \o Flag(c.extend_iterations # 0, "--extend-iterations",
                     ToString(c.extend_iterations))
             \o (IF c.new_session_from_checkpoint
                   THEN <<"--new-session-from-checkpoint">> ELSE <<>>))
    \o Flag(bypass, "--permission-mode-override", PERMISSION_BYPASS)

\* build_container_launch_spec: the worker argument vector
WorkerArgs(m, c, bypass) ==
    <<"worker", "--run-dir", WORKER_RUN_DIR, "--run-id", "run", "--mode", m>>
    \o (IF m = "run"
          THEN Flag(c.max_cost_usd # Unset, "--max-cost-usd", FloatText(c.max_cost_usd))
               \o Flag(c.max_time_minutes # Unset, "--max-time-minutes",
                       ToString(c.max_time_minutes))
               \o Flag(c.max_tokens_total # Unset, "--max-tokens-total",
                       ToString(c.max_tokens_total))
               \o Flag(c.max_iterations # Unset, "--max-iterations",
                       ToString(c.max_iterations))
        ELSE Flag(c.extend_cost_usd # 0, "--extend-cost-usd", FloatText(c.extend_cost_usd))
             \o Flag(c.extend_time_minutes # 0, "--extend-time-minutes",
                     ToString(c.extend_time_minutes))
             \o Flag(c.extend_tokens_total # 0, "--extend-tokens-total",
                     ToString(c.extend_tokens_total))
             \o Flag(c.extend_iterations # 0, "--extend-iterations",
                     ToString(c.extend_iterations))
             \o (IF c.new_session_from_checkpoint
                   THEN <<"--new-session-from-checkpoint">> ELSE <<>>))
    \o Flag(bypass, "--permission-mode-override", PERMISSION_BYPASS)

\* click: the value following an option name, or the option's default
Given(args, name) == \E i \in 1..Len(args) : args[i] = name
ValueOf(args, name) == args[(CHOOSE i \in 1..Len(args) : args[i] = name) + 1]
OptFloat(args, name, default) ==
    IF Given(args, name) THEN ParseFloat(ValueOf(args, name)) ELSE default
OptInt(args, name, default) ==
    IF Given(args, name) THEN ParseInt(ValueOf(args, name)) ELSE default

\* the mode and the RalphLoopConfig the worker command builds from its
\* argument vector
WorkerMode(args) == ValueOf(args, "--mode")
WorkerConfig(args) ==
    LoopConfig(OptFloat(args, "--max-cost-usd", Unset),
               OptInt(args, "--max-time-minutes", Unset),
               OptInt(args, "--max-tokens-total", Unset),
               OptInt(args, "--max-iterations", Unset),
               Given(args, "--new-session-from-checkpoint"),
               OptFloat(args, "--extend-cost-usd", 0),
               OptInt(args, "--extend-time-minutes", 0),
               OptInt(args, "--extend-tokens-total", 0),
               OptInt(args, "--extend-iterations", 0))

\* a configuration carrying ceilings and extensions at once, as a caller of
\* build_container_launch_spec other than the command line can pass
MixedConfig == LoopConfig(1, Unset, Unset, 1, TRUE, 1, 0, 0, 1)

\* ------------------------------------------------------------ runner image
\* _compute_runner_image_fingerprint of the sources as they are, and of an
\* earlier version of them
Fingerprint == "fp-now"
StaleFingerprint == "fp-before"

Image(exists, label) == [exists |-> exists, label |-> label]

\* what `image inspect` can find under the target name: nothing, an image
\* without the label, one built from earlier sources, one built from these
Images ==
    {Image(FALSE, NoneStr), Image(TRUE, NoneStr), Image(TRUE, StaleFingerprint),
     Image(TRUE, Fingerprint)}

\* the reuse test of _ensure_fresh_image, accepting any image that exists
ImageFresh_AnyImage(found, desired) == found.exists

\* image_exists and current_fingerprint == desired_fingerprint
ImageFresh(found, desired) == found.exists /\ found.label = desired

\* the host reads the state file back after a container that exited with
\* any code
ReadsBack_AnyExit(code) == TRUE

\* launch_container_worker returns (and the host reads the state file back)
\* only for exit code 0
ReadsBack(code) == code = 0


\* ------------------------------------------------------------------ state
VARIABLES
    manifest,     \* run_manifest.yaml: provider and limits (never written)
    fileExists,   \* state.json exists
    intact,       \* state.json holds a complete document
    disk,         \* the document in state.json (meaningful when fileExists)
    pc,           \* "idle": no runner; "check": top of the loop; "stream":
                  \* conversation in flight; "hook", "inline": a compaction
                  \* signal is being handled; "raising": failure saved, error
                  \* not yet raised; "persist", "classify": after the stream
    mode,         \* the mode of the current (or last attempted) launch
    cfg,          \* self.cfg of the current (or last accepted) launch
    mem,          \* self.state
    now,          \* the clock utc_now_iso reads
    call,         \* the options of the current (or last) query() call
    result_msg,   \* the terminal result of the stream just completed
    iterlog,      \* logs/iterations.jsonl: the iteration numbers recorded
    events,       \* logs/events.jsonl: the type of the last event appended
                  \* (NoneStr: the file does not exist)
    fs_ok,        \* the checkpoint write of the signal being handled can
                  \* complete (TRUE when no signal is being handled)
    reported,     \* per session id, the total the service reported last
                  \* (recorded by AccountReported only)
    outcome,      \* how the last launch ended: "none", "returned", "raised",
                  \* "killed"
    launches,     \* number of launches so far
    launched,     \* what the current launch loaded: iteration, session, limits
    invoked,      \* query() calls made by the current launch
    peer,         \* a second runner started on the same run directory: its
                  \* position, its self.state, the iteration of its query()
                  \* call and the classification of the result it holds
    execution,    \* the agent provider and execution block of the manifest,
                  \* the caller's overrides and the configuration resolved
    host          \* the host command that delegates to a container

vars == <<manifest, fileExists, intact, disk, pc, mode, cfg, mem, now, call,
          result_msg, iterlog, events, fs_ok, reported, outcome, launches,
          launched, invoked, peer, execution, host>>

\* what no step of the first runner's loop writes
aside == <<reported, peer, execution, host>>

\* _build_limits / _state_from_manifest
StateFromManifest(m, t) == Initialize(m.provider, m.limits, t)

ManifestLimits ==
    {RunLimits(Unset, Unset, Unset, Unset),
     RunLimits(Unset, Unset, Unset, 2),
     RunLimits(2, 1, 2, 2)}

Manifests == {[provider |-> p, limits |-> l] : p \in Providers, l \in ManifestLimits}

NoCall == [resume |-> NoneStr, max_budget_usd |-> Unset, iteration |-> 0]
NoResult ==
    [session_id |-> NoneStr, total_cost_usd |-> Unset, usage |-> NoUsage,
     subtype |-> NoneStr, is_error |-> FALSE, elapsed |-> 0]
\* the fields of a result the loop reads after the accounting and after
\* the save that follows it
Accounting(r) == [r EXCEPT !.usage = NoUsage, !.elapsed = 0]
Classification(r) == [NoResult EXCEPT !.subtype = r.subtype, !.is_error = r.is_error]

AsLoaded(s) ==
    [status |-> s.status, iteration |-> s.iteration, session_id |-> s.session_id,
     limits |-> s.limits]

\* no host command is running; the image store holds no runner image
NoHost ==
    [pc |-> "idle",
     image |-> Image(FALSE, NoneStr),
     sources |-> Fingerprint,
     mode |-> "run",
     cfg |-> DefaultConfig,
     bypass |-> FALSE,
     args |-> <<>>,
     found |-> Image(FALSE, NoneStr),
     builds |-> 0,
     build_rc |-> Unset,
     base |-> 0,
     exit |-> Unset,
     read |-> FALSE,
     outcome |-> "none"]

\* the run directory after scaffolding, before any command
InitRun ==
    /\ manifest \in Manifests
    /\ fileExists = FALSE
    /\ intact = TRUE
    /\ disk = StateFromManifest(manifest, 0)
    /\ pc = "idle"
    /\ mode = "run"
    /\ cfg = DefaultConfig
    /\ mem = StateFromManifest(manifest, 0)
    /\ now = 1
    /\ call = NoCall
    /\ result_msg = NoResult
    /\ iterlog = <<>>
    /\ events = NoneStr
    /\ fs_ok = TRUE
    /\ reported = [s \in SessionIds |-> 0]
    /\ outcome = "none"
    /\ launches = 0
    /\ launched = AsLoaded(mem)
    /\ invoked = 0
    /\ peer = [pc |-> "idle", mem |-> StateFromManifest(manifest, 0), iteration |-> 0,
               result |-> NoResult]

Init ==
    /\ InitRun
    /\ execution = NoExecution
    /\ host = NoHost

\* RalphLoopRunner.__init__ and the head of run(): load or initialize the
\* state, apply the launch overrides, save, log run.start; a rejected launch
\* (unreadable state file, provider, run on a started run) raises before any
\* write.
Launch(m, c) ==
    /\ pc = "idle"
    /\ launches < MaxLaunches
    /\ launches' = launches + 1
    /\ mode' = m
    /\ invoked' = 0
    /\ LET loaded == IF fileExists THEN FromDict(disk) ELSE StateFromManifest(manifest, now)
           r == LoadOrInitializeState(loaded, m, c, now)
       IN IF (fileExists => intact) /\ r.ok
            THEN /\ cfg' = c
                 /\ mem' = MarkUpdated(r.state, now)
                 /\ disk' = SaveState(r.state, now)
                 /\ fileExists' = TRUE
                 /\ launched' = AsLoaded(loaded)
                 /\ pc' = "check"
                 /\ outcome' = "none"
                 /\ events' = "run.start"
                 /\ now' = now + 1
            ELSE /\ outcome' = "raised"
                 /\ launched' = AsLoaded(loaded)
                 /\ UNCHANGED <<cfg, mem, disk, fileExists, pc, now, events>>
    /\ UNCHANGED <<manifest, intact, call, result_msg, iterlog, fs_ok, aside>>

LaunchRun == \E c \in RunConfigs : Launch("run", c)
LaunchResume == \E c \in ResumeConfigs : Launch("resume", c)

\* the stop branch at the top of the loop
Stopped(s, status, reason, detail, t) ==
    [s EXCEPT !.status = status, !.stopped_at = t,
              !.last_stop_reason = reason, !.last_stop_detail = detail]

BudgetStop ==
    /\ pc = "check"
    /\ StateStopCheck(mem).stop
    /\ mem' = MarkUpdated(Stopped(mem, STATE_STOPPED, StateStopCheck(mem).reason,
                                  StateStopCheck(mem).detail, now), now)
    /\ disk' = SaveState(mem', now)
    /\ events' = "run.stop"
    /\ pc' = "idle"
    /\ outcome' = "returned"
    /\ now' = now + 1
    /\ UNCHANGED <<manifest, fileExists, intact, mode, cfg, call, result_msg, iterlog,
                   fs_ok, aside, launches, launched, invoked>>

\* no ceiling reached: build the options, log iteration.start, call query()
Invoke ==
    /\ pc = "check"
    /\ ~StateStopCheck(mem).stop
    /\ mem.iteration < MaxInvocations
    /\ call' = [resume |-> mem.session_id, max_budget_usd |-> RemainingBudgetUsd(mem),
                iteration |-> mem.iteration + 1]
    /\ invoked' = invoked + 1
    /\ events' = "iteration.start"
    /\ pc' = "stream"
    /\ UNCHANGED <<manifest, fileExists, intact, disk, mode, cfg, mem, now, result_msg,
                   iterlog, fs_ok, aside, outcome, launches, launched>>

\* the event on_hook appends after a checkpoint write that is skipped
CheckpointEvent_Skipped(ok, before) == before

\* _write_precompact_checkpoint and the append_event that follows it: the
\* last event after the write (checkpoint.precompact carries the path of the
\* file written; a write that raises appends nothing)
CheckpointEvent(ok, before) == IF ok THEN "checkpoint.precompact" ELSE before

\* the SDK calls on_hook for PreCompact: the hook event is logged
HookSignal ==
    /\ pc = "stream"
    /\ fs_ok' \in BOOLEAN
    /\ events' = "hook.precompact"
    /\ pc' = "hook"
    /\ UNCHANGED <<manifest, fileExists, intact, disk, mode, cfg, mem, now, call,
                   result_msg, iterlog, aside, outcome, launches, launched, invoked>>

\* on_hook writes the checkpoint inside its try block and returns
\* {"continue_": True}: a failure is logged as hook.callback_error
HookCheckpoint ==
    /\ pc = "hook"
    /\ events' = IF fs_ok THEN CheckpointEvent(fs_ok, events) ELSE "hook.callback_error"
    /\ fs_ok' = TRUE
    /\ pc' = "stream"
    /\ UNCHANGED <<manifest, fileExists, intact, disk, mode, cfg, mem, now, call,
                   result_msg, iterlog, aside, outcome, launches, launched, invoked>>

\* the stream delivers a system message with subtype compact_boundary: the
\* message is logged
InlineSignal ==
    /\ pc = "stream"
    /\ fs_ok' \in BOOLEAN
    /\ events' = "sdk.message"
    /\ pc' = "inline"
    /\ UNCHANGED <<manifest, fileExists, intact, disk, mode, cfg, mem, now, call,
                   result_msg, iterlog, aside, outcome, launches, launched, invoked>>

\* the state a failure path saves, with the status left as it was
FailedState_KeepsStatus(s, reason, detail, t) ==
    MarkUpdated([s EXCEPT !.stopped_at = t, !.last_stop_reason = reason,
                          !.last_stop_detail = detail], t)

\* the state a failure path saves, with the failed iteration counted
FailedState_CountsIteration(s, reason, detail, t) ==
    MarkUpdated([s EXCEPT !.status = STATE_FAILED, !.stopped_at = t,
                          !.last_stop_reason = reason, !.last_stop_detail = detail,
                          !.iteration = @ + 1], t)

\* status, stopped_at, last_stop_reason, last_stop_detail of a failure path,
\* stamped by the save_state that follows
FailedState(s, reason, detail, t) ==
    MarkUpdated([s EXCEPT !.status = STATE_FAILED, !.stopped_at = t,
                          !.last_stop_reason = reason, !.last_stop_detail = detail], t)

\* the loop body writes the checkpoint for the inline message, in the try
\* block around the stream
InlineCheckpointWritten ==
    /\ pc = "inline"
    /\ fs_ok
    /\ events' = CheckpointEvent(fs_ok, events)
    /\ pc' = "stream"
    /\ UNCHANGED <<manifest, fileExists, intact, disk, mode, cfg, mem, now, call,
                   result_msg, iterlog, fs_ok, aside, outcome, launches, launched,
                   invoked>>

\* the same write raising: the except branch around the stream takes it
InlineCheckpointRaises ==
    /\ pc = "inline"
    /\ ~fs_ok
    /\ \E e \in ErrorTexts :
          mem' = FailedState(mem, "runtime_exception", e, now)
    /\ disk' = SaveState(mem', now)
    /\ now' = now + 1
    /\ fs_ok' = TRUE
    /\ pc' = "raising"
    /\ UNCHANGED <<manifest, fileExists, intact, mode, cfg, call, result_msg, iterlog,
                   events, aside, outcome, launches, launched, invoked>>

\* the stream raises, or ends without a ResultMessage: the failed state is
\* saved
Fail(reason, detail) ==
    /\ pc = "stream"
    /\ mem' = FailedState(mem, reason, detail, now)
    /\ disk' = SaveState(mem', now)
    /\ now' = now + 1
    /\ pc' = "raising"
    /\ UNCHANGED <<manifest, fileExists, intact, mode, cfg, call, result_msg, iterlog,
                   events, fs_ok, aside, outcome, launches, launched, invoked>>

StreamRaises == \E e \in ErrorTexts : Fail("runtime_exception", e)
StreamEndsWithoutResult ==
    Fail("missing_result_message", "SDK stream ended without ResultMessage")

\* after the save: run.error is logged and the error goes to the caller
Raise ==
    /\ pc = "raising"
    /\ events' = "run.error"
    /\ pc' = "idle"
    /\ outcome' = "raised"
    /\ UNCHANGED <<manifest, fileExists, intact, disk, mode, cfg, mem, now, call,
                   result_msg, iterlog, fs_ok, aside, launches, launched, invoked>>

\* post-iteration accounting of a terminal result
Accounted(s, r, iteration, elapsed) ==
    [s EXCEPT !.iteration = iteration,
              !.session_id = r.session_id,
              !.session_total_cost_usd =
                  IF r.total_cost_usd # Unset THEN r.total_cost_usd ELSE @,
              !.cumulative_cost_usd =
                  @ + ComputeCostDelta(r.total_cost_usd, s, r.session_id),
              !.cumulative_tokens = @ + ExtractTokenTotal(r.usage),
              !.cumulative_wall_time_seconds = @ + elapsed,
              !.last_result_subtype = r.subtype]

\* what one completed stream can deliver besides the session and its
\* total: the usage payload, the classification and the wall time observed
Outcome(usage, subtype, err, elapsed) ==
    [usage |-> usage, subtype |-> subtype, is_error |-> err, elapsed |-> elapsed]

\* results after which the loop goes on
LoopOutcomes ==
    {Outcome(UsageTotal, "success", FALSE, 60),
     Outcome(NoUsage, "success", FALSE, 0)}

\* results that end the loop
StopOutcomes ==
    {Outcome(UsageNested, "error_max_turns", TRUE, 60),
     Outcome(UsageEmpty, "error_max_budget_usd", FALSE, 0),
     Outcome(UsageFlat, "error_during_execution", TRUE, 0),
     Outcome(NoUsage, "success", TRUE, 0)}

ResultMessage(sid, total, o) ==
    [session_id |-> sid, total_cost_usd |-> total, usage |-> o.usage,
     subtype |-> o.subtype, is_error |-> o.is_error, elapsed |-> o.elapsed]

\* the terminal results a stream can end with, with the wall time observed:
\* a limit result continues session s1 with a total, an error result comes
\* from session s2 without one
Results ==
    {ResultMessage(sid, total, o) :
        sid \in SessionIds, total \in TotalCosts, o \in LoopOutcomes}
    \cup {ResultMessage("s1", 2, o) :
             o \in {x \in StopOutcomes :
                      x.subtype \in {"error_max_turns", "error_max_budget_usd"}}}
    \cup {ResultMessage("s2", Unset, o) :
             o \in {x \in StopOutcomes :
                      x.subtype \notin {"error_max_turns", "error_max_budget_usd"}}}

\* what the service has reported last for each session, after result r
Reported(rep, r) ==
    IF r.total_cost_usd # Unset THEN [rep EXCEPT ![r.session_id] = r.total_cost_usd]
    ELSE rep

\* the stream ends with result r (logged as sdk.message): update the state,
\* append the summary
AccountResult(r) ==
    /\ pc = "stream"
    /\ LET elapsed == r.elapsed
       IN
          /\ result_msg' = Accounting(r)
          /\ mem' = Accounted(mem, r, call.iteration, elapsed)
    /\ iterlog' = Append(iterlog, call.iteration)
    /\ events' = "sdk.message"
    /\ pc' = "persist"
    /\ UNCHANGED <<manifest, fileExists, intact, disk, mode, cfg, now, call, fs_ok,
                   outcome, launches, launched, invoked, peer, execution, host>>

Account == \E r \in Results : AccountResult(r) /\ UNCHANGED reported

\* save_state after the accounting
Persist ==
    /\ pc = "persist"
    /\ mem' = MarkUpdated(mem, now)
    /\ disk' = SaveState(mem, now)
    /\ now' = now + 1
    /\ result_msg' = Classification(result_msg)
    /\ pc' = "classify"
    /\ UNCHANGED <<manifest, fileExists, intact, mode, cfg, call, iterlog, events,
                   fs_ok, aside, outcome, launches, launched, invoked>>

\* the result's classification: stop, fail, or loop
Classify ==
    /\ pc = "classify"
    /\ LET r == ResultStopReason(result_msg.subtype, result_msg.is_error)
       IN IF r.reason # NoneStr
            THEN /\ mem' = MarkUpdated(
                              Stopped(mem,
                                      IF StartsWithSdkMax(r.reason) THEN STATE_STOPPED
                                      ELSE STATE_FAILED,
                                      r.reason, r.detail, now), now)
                 /\ disk' = SaveState(mem', now)
                 /\ now' = now + 1
                 /\ events' = "run.stop"
                 /\ pc' = "idle"
                 /\ outcome' = "returned"
            ELSE /\ pc' = "check"
                 /\ UNCHANGED <<mem, disk, now, events, outcome>>
    /\ result_msg' = NoResult
    /\ UNCHANGED <<manifest, fileExists, intact, mode, cfg, call, iterlog,
                   fs_ok, aside, launches, launched, invoked>>

\* every step but the accounting of a result
Loop ==
    \/ LaunchRun
    \/ LaunchResume
    \/ BudgetStop
    \/ Invoke
    \/ HookSignal
    \/ HookCheckpoint
    \/ InlineSignal
    \/ InlineCheckpointWritten
    \/ InlineCheckpointRaises
    \/ StreamRaises
    \/ StreamEndsWithoutResult
    \/ Raise
    \/ Persist
    \/ Classify

Next ==
    \/ Loop
    \/ Account

Spec == Init /\ [][Next]_vars

\* ---------------------------------------------------------------- fairness
\* the statements of run() between two events of the stream: each is executed
\* once control reaches it
Step ==
    \/ BudgetStop
    \/ Invoke
    \/ HookCheckpoint
    \/ InlineCheckpointWritten
    \/ InlineCheckpointRaises
    \/ Raise
    \/ Persist
    \/ Classify

\* the ways the `async for` over query() is left
StreamEnds ==
    \/ Account
    \/ StreamRaises
    \/ StreamEndsWithoutResult

\* the program with its statements executed and every stream ending
FairSpec == Init /\ [][Next]_vars /\ WF_vars(Step) /\ SF_vars(StreamEnds)

\* ------------------------------------------- the service's reports recorded
\* the accounting step, with the total the service reported for the
\* result's session written down beside the program's own bookkeeping
AccountReported ==
    \E r \in Results : AccountResult(r) /\ reported' = Reported(reported, r)

SessionNext ==
    \/ Loop
    \/ AccountReported

SessionSpec == Init /\ [][SessionNext]_vars

\* ------------------------------------------------ the process being killed
\* save_state is the statement the runner executes next
SavePending ==
    \/ pc = "persist"
    \/ pc = "check" /\ StateStopCheck(mem).stop
    \/ pc = "classify"
         /\ ResultStopReason(result_msg.subtype, result_msg.is_error).reason # NoneStr

\* the process dies between two statements: memory is lost, the files stay
Kill ==
    /\ pc # "idle"
    /\ pc' = "idle"
    /\ outcome' = "killed"
    /\ mem' = FromDict(disk)
    /\ result_msg' = NoResult
    /\ fs_ok' = TRUE
    /\ UNCHANGED <<manifest, fileExists, intact, disk, mode, cfg, now, call, iterlog,
                   events, aside, launches, launched, invoked>>

\* the process dies inside save_state's Path.write_text, after the file was
\* opened for writing (truncated) and before the document was flushed
KillDuringSave ==
    /\ SavePending
    /\ intact' = FALSE
    /\ pc' = "idle"
    /\ outcome' = "killed"
    /\ mem' = FromDict(disk)
    /\ result_msg' = NoResult
    /\ fs_ok' = TRUE
    /\ UNCHANGED <<manifest, fileExists, disk, mode, cfg, now, call, iterlog,
                   events, aside, launches, launched, invoked>>

CrashNext ==
    \/ Next
    \/ Kill
    \/ KillDuringSave

CrashSpec == Init /\ [][CrashNext]_vars


\* ------------------------------------- two runners on one run directory
\* A second RalphLoopRunner process started on the same run directory. It is
\* the same program with its own memory; state.json, the two logs and the
\* clock are shared. Its steps are taken at the grain of its file writes (a
\* failure's save, its run.error event and the raise are one step), and its
\* compaction signals, which touch neither state.json nor iterations.jsonl,
\* are left out.
PeerVars == <<manifest, intact, pc, mode, cfg, mem, call, result_msg, fs_ok,
              reported, outcome, launched, invoked, execution, host>>

\* __init__ and the head of run() in the second process
PeerLaunch(m, c) ==
    /\ pc # "idle"
    /\ peer.pc = "idle"
    /\ peer.mem.status = STATE_INITIALIZED
    /\ launches < MaxLaunches
    /\ launches' = launches + 1
    /\ LET loaded == IF fileExists THEN FromDict(disk) ELSE StateFromManifest(manifest, now)
           r == LoadOrInitializeState(loaded, m, c, now)
       IN IF r.ok
            THEN /\ peer' = [pc |-> "check", mem |-> MarkUpdated(r.state, now),
                             iteration |-> 0, result |-> NoResult]
                 /\ disk' = SaveState(r.state, now)
                 /\ fileExists' = TRUE
                 /\ events' = "run.start"
                 /\ now' = now + 1
            ELSE UNCHANGED <<peer, disk, fileExists, events, now>>
    /\ UNCHANGED PeerVars
    /\ UNCHANGED iterlog

PeerLaunchRun == \E c \in RunConfigs : PeerLaunch("run", c)
PeerLaunchResume == \E c \in ResumeConfigs : PeerLaunch("resume", c)

\* the stop branch at the top of the loop
PeerBudgetStop ==
    /\ peer.pc = "check"
    /\ StateStopCheck(peer.mem).stop
    /\ peer' = [peer EXCEPT
                   !.pc = "idle",
                   !.mem = MarkUpdated(Stopped(@, STATE_STOPPED,
                                               StateStopCheck(peer.mem).reason,
                                               StateStopCheck(peer.mem).detail, now), now)]
    /\ disk' = SaveState(peer'.mem, now)
    /\ events' = "run.stop"
    /\ now' = now + 1
    /\ UNCHANGED PeerVars
    /\ UNCHANGED <<fileExists, iterlog, launches>>

PeerInvoke ==
    /\ peer.pc = "check"
    /\ ~StateStopCheck(peer.mem).stop
    /\ peer.mem.iteration < MaxInvocations
    /\ peer' = [peer EXCEPT !.pc = "stream", !.iteration = peer.mem.iteration + 1]
    /\ events' = "iteration.start"
    /\ UNCHANGED PeerVars
    /\ UNCHANGED <<fileExists, disk, now, iterlog, launches>>

\* the stream raises or ends without a result: save, run.error, raise
PeerFail(reason, detail) ==
    /\ peer.pc = "stream"
    /\ peer' = [peer EXCEPT !.pc = "idle",
                            !.mem = FailedState(@, reason, detail, now)]
    /\ disk' = SaveState(peer'.mem, now)
    /\ events' = "run.error"
    /\ now' = now + 1
    /\ UNCHANGED PeerVars
    /\ UNCHANGED <<fileExists, iterlog, launches>>

PeerStreamRaises == \E e \in ErrorTexts : PeerFail("runtime_exception", e)
PeerStreamEndsWithoutResult ==
    PeerFail("missing_result_message", "SDK stream ended without ResultMessage")

\* the results the two runners are followed through: two totals of one
\* session, and a budget-limit result
SharedResults ==
    {r \in Results : /\ r.session_id = "s1"
                     /\ r.total_cost_usd # Unset
                     /\ r.usage \in {UsageTotal, UsageEmpty}}

\* the stream ends with result r: update the state, append the summary
PeerAccount ==
    /\ peer.pc = "stream"
    /\ \E r \in SharedResults :
          peer' = [peer EXCEPT !.pc = "persist",
                               !.mem = Accounted(@, r, peer.iteration, r.elapsed),
                               !.result = Classification(r)]
    /\ iterlog' = Append(iterlog, peer.iteration)
    /\ events' = "sdk.message"
    /\ UNCHANGED PeerVars
    /\ UNCHANGED <<fileExists, disk, now, launches>>

\* a save after the accounting that leaves a file with a higher or equal
\* iteration count alone
PeerPersist_UnlessBehind ==
    /\ peer.pc = "persist"
    /\ peer' = [peer EXCEPT !.pc = "classify", !.mem = MarkUpdated(@, now)]
    /\ disk' = IF disk.iteration >= peer.mem.iteration THEN disk
               ELSE SaveState(peer.mem, now)
    /\ now' = now + 1
    /\ UNCHANGED PeerVars
    /\ UNCHANGED <<fileExists, iterlog, events, launches>>

\* save_state after the accounting
PeerPersist ==
    /\ peer.pc = "persist"
    /\ peer' = [peer EXCEPT !.pc = "classify", !.mem = MarkUpdated(@, now)]
    /\ disk' = SaveState(peer.mem, now)
    /\ now' = now + 1
    /\ UNCHANGED PeerVars
    /\ UNCHANGED <<fileExists, iterlog, events, launches>>

\* the result's classification: stop, fail, or loop
PeerClassify ==
    /\ peer.pc = "classify"
    /\ LET r == ResultStopReason(peer.result.subtype, peer.result.is_error)
       IN IF r.reason # NoneStr
            THEN /\ peer' = [peer EXCEPT
                               !.pc = "idle",
                               !.result = NoResult,
                               !.mem = MarkUpdated(
                                          Stopped(@, IF StartsWithSdkMax(r.reason)
                                                       THEN STATE_STOPPED
                                                     ELSE STATE_FAILED,
                                                  r.reason, r.detail, now), now)]
                 /\ disk' = SaveState(peer'.mem, now)
                 /\ now' = now + 1
                 /\ events' = "run.stop"
            ELSE /\ peer' = [peer EXCEPT !.pc = "check", !.result = NoResult]
                 /\ UNCHANGED <<disk, now, events>>
    /\ UNCHANGED PeerVars
    /\ UNCHANGED <<fileExists, iterlog, launches>>

PeerNext ==
    \/ PeerLaunchRun
    \/ PeerLaunchResume
    \/ PeerBudgetStop
    \/ PeerInvoke
    \/ PeerStreamRaises
    \/ PeerStreamEndsWithoutResult
    \/ PeerAccount
    \/ PeerPersist
    \/ PeerClassify

SharedAccount == \E r \in SharedResults : AccountResult(r) /\ UNCHANGED reported

\* the first runner, its compaction signals left out like the second's
Core ==
    \/ LaunchRun
    \/ LaunchResume
    \/ BudgetStop
    \/ Invoke
    \/ StreamRaises
    \/ StreamEndsWithoutResult
    \/ Raise
    \/ SharedAccount
    \/ Persist
    \/ Classify

SharedNext ==
    \/ Core
    \/ PeerNext

SharedSpec == Init /\ [][SharedNext]_vars


\* --------------------------------------- resolving the execution configuration
\* a run directory whose manifest carries any of the execution blocks, and a
\* command line carrying any of the overrides
ConfigInit ==
    /\ InitRun
    /\ manifest.limits = RunLimits(Unset, Unset, Unset, Unset)
    /\ host = NoHost
    /\ execution \in {[provider |-> p, block |-> b, overrides |-> o, config |-> Unresolved] :
                         p \in {q \in AgentProviders : Lower(q) = manifest.provider},
                         b \in ExecutionBlocks, o \in OverrideSets}

\* _execute_with_selected_mode calls resolve_execution_config
Resolve ==
    /\ execution.config = Unresolved
    /\ execution' = [execution EXCEPT
                        !.config = ResolveExecutionConfig(execution.provider,
                                                          execution.block,
                                                          execution.overrides)]
    /\ UNCHANGED <<manifest, fileExists, intact, disk, pc, mode, cfg, mem, now, call,
                   result_msg, iterlog, events, fs_ok, reported, outcome, launches,
                   launched, invoked, peer, host>>

ConfigSpec == ConfigInit /\ [][Resolve]_vars

\* ------------------------------------------------- delegating to a container
\* what no step of the host command writes: the host appends launcher events
\* to logs/events.jsonl and touches nothing else of the run directory
RunDirectory ==
    <<manifest, fileExists, intact, disk, pc, mode, cfg, mem, now, call, result_msg,
      iterlog, fs_ok, reported, outcome, launches, launched, invoked, peer>>

\* manifests that ask for a container, with and without the bypass
LauncherExecutions ==
    {[provider |-> "claude",
      block |-> ExecutionBlock("container", Absent, Absent, Absent, b),
      overrides |-> ExecutionOverrides(Absent, Absent, Absent, Absent),
      config |-> Unresolved] : b \in {Absent, "True"}}

LauncherInit ==
    /\ InitRun
    /\ manifest.provider = "claude"
    /\ manifest.limits = RunLimits(Unset, Unset, Unset, 2)
    /\ execution \in LauncherExecutions
    /\ host = NoHost

\* images come and go between commands: pruned, rebuilt by hand, or left
\* behind by a build from sources that have changed since
ImageStoreChanges ==
    /\ host.pc = "idle"
    /\ pc = "idle"
    /\ \E i \in Images \ {host.image} : host' = [host EXCEPT !.image = i]
    /\ UNCHANGED <<RunDirectory, events, execution>>

\* _execute_with_selected_mode in container mode, up to _verify_runtime
HostCommand(m, c) ==
    /\ host.pc = "idle"
    /\ pc = "idle"
    /\ launches < MaxLaunches
    /\ LET e == ResolveExecutionConfig(execution.provider, execution.block,
                                       execution.overrides)
       IN /\ e.ok
          /\ e.mode = "container"
          /\ execution' = [execution EXCEPT !.config = e]
          /\ \E runtime_found \in BOOLEAN :
                host' = [NoHost EXCEPT !.image = host.image, !.mode = m, !.cfg = c,
                                       !.bypass = e.use_bypass_permissions,
                                       !.pc = IF runtime_found THEN "ensure" ELSE "idle",
                                       !.outcome = IF runtime_found THEN "none"
                                                   ELSE "raised"]
    /\ UNCHANGED <<RunDirectory, events>>

HostRun == \E c \in RunConfigs \cup {MixedConfig} : HostCommand("run", c)
HostResume == \E c \in ResumeConfigs \cup {MixedConfig} : HostCommand("resume", c)

\* _ensure_fresh_image: inspect; reuse a fresh image, else start a build
EnsureFreshImage ==
    /\ host.pc = "ensure"
    /\ IF ImageFresh(host.image, host.sources)
         THEN /\ host' = [host EXCEPT !.found = host.image, !.pc = "start"]
              /\ events' = "launcher.container.image.reuse"
         ELSE /\ host' = [host EXCEPT !.found = host.image, !.pc = "build",
                                      !.builds = @ + 1]
              /\ events' = "launcher.container.image.build_start"
    /\ UNCHANGED <<RunDirectory, execution>>

\* _build_runner_image returns: the image is stamped with the fingerprint,
\* or the build failed and _ensure_fresh_image raises
BuildFinishes ==
    /\ host.pc = "build"
    /\ \E rc \in {0, 1} :
          host' = IF rc = 0
                    THEN [host EXCEPT !.build_rc = rc, !.pc = "start",
                                      !.image = Image(TRUE, host.sources)]
                    ELSE [host EXCEPT !.build_rc = rc, !.pc = "idle",
                                      !.outcome = "raised"]
    /\ events' = "launcher.container.image.build_finish"
    /\ UNCHANGED <<RunDirectory, execution>>

\* build_container_launch_spec, the start event, subprocess.run begins
StartContainer ==
    /\ host.pc = "start"
    /\ host' = [host EXCEPT !.args = WorkerArgs(host.mode, host.cfg, host.bypass),
                            !.base = launches, !.pc = "container"]
    /\ events' = "launcher.container.start"
    /\ UNCHANGED <<RunDirectory, execution>>

\* the runtime cannot start the container
ContainerFailsToStart ==
    /\ host.pc = "container"
    /\ launches = host.base
    /\ host' = [host EXCEPT !.exit = 125, !.pc = "exited"]
    /\ UNCHANGED <<RunDirectory, events, execution>>

\* the worker command inside the container
WorkerLaunch ==
    /\ host.pc = "container"
    /\ launches = host.base
    /\ Launch(WorkerMode(host.args), WorkerConfig(host.args))

WorkerLoop ==
    /\ host.pc = "container"
    /\ launches > host.base
    /\ \/ BudgetStop
       \/ Invoke
       \/ StreamRaises
       \/ StreamEndsWithoutResult
       \/ Raise
       \/ SharedAccount
       \/ Persist
       \/ Classify

\* the worker command ends: exit code 0 when run_loop returned, 1 when the
\* command raised
ContainerExits ==
    /\ host.pc = "container"
    /\ launches > host.base
    /\ pc = "idle"
    /\ host' = [host EXCEPT !.exit = IF outcome = "returned" THEN 0 ELSE 1,
                            !.pc = "exited"]
    /\ UNCHANGED <<RunDirectory, events, execution>>

\* subprocess.run returned: the exit event; nonzero raises RuntimeError, zero
\* returns to _execute_with_selected_mode, which loads the state file
HostAfterExit ==
    /\ host.pc = "exited"
    /\ events' = "launcher.container.exit"
    /\ host' = IF ReadsBack(host.exit)
                 THEN [host EXCEPT !.pc = "idle", !.read = fileExists,
                                   !.outcome = IF fileExists THEN "returned"
                                               ELSE "raised"]
                 ELSE [host EXCEPT !.pc = "idle", !.outcome = "raised"]
    /\ UNCHANGED <<RunDirectory, execution>>

LauncherNext ==
    \/ ImageStoreChanges
    \/ HostRun
    \/ HostResume
    \/ EnsureFreshImage
    \/ BuildFinishes
    \/ StartContainer
    \/ ContainerFailsToStart
    \/ WorkerLaunch
    \/ WorkerLoop
    \/ ContainerExits
    \/ HostAfterExit

LauncherSpec == LauncherInit /\ [][LauncherNext]_vars

\* ================================================================ claims

\* the ceilings of a state that have been reached, in the evaluator's order
IterationsReached(s) ==
    s.limits.max_iterations # Unset /\ s.iteration >= s.limits.max_iterations
CostReached(s) ==
    s.limits.max_cost_usd # Unset /\ s.cumulative_cost_usd >= s.limits.max_cost_usd
TokensReached(s) ==
    s.limits.max_tokens_total # Unset /\ s.cumulative_tokens >= s.limits.max_tokens_total
TimeReached(s) ==
    s.limits.max_time_minutes # Unset
    /\ s.cumulative_wall_time_seconds >= 60 * s.limits.max_time_minutes

\* C1: the conversation is in flight only from a state in which no
\* configured ceiling (iterations, cost, tokens, wall minutes) was reached.
C1_BudgetBeforeInvocation ==
    pc = "stream" =>
        /\ ~IterationsReached(mem)
        /\ ~CostReached(mem)
        /\ ~TokensReached(mem)
        /\ ~TimeReached(mem)

\* a second invocation of a launch, made with cost spent below a cost ceiling
C1_Witness ==
    /\ pc = "stream"
    /\ invoked = 2
    /\ mem.limits.max_cost_usd # Unset
    /\ mem.cumulative_cost_usd > 0

\* C2: when the loop stops with max_iterations_reached at ceiling N, the
\* iteration counter is N, the launch made exactly the N - (iteration at
\* launch) invocations that were missing, and the iteration log records
\* the iterations 1..N, one per completed invocation.
C2_ExactlyNIterations ==
    (pc = "idle" /\ outcome = "returned" /\ mem.status = STATE_STOPPED
       /\ mem.last_stop_reason = "max_iterations_reached")
    => /\ mem.iteration = mem.limits.max_iterations
       /\ invoked = mem.iteration - launched.iteration
       /\ Len(iterlog) = mem.limits.max_iterations
       /\ \A i \in 1..Len(iterlog) : iterlog[i] = i

\* a run with ceiling 2 that stopped after its two invocations
C2_Witness ==
    /\ pc = "idle"
    /\ outcome = "returned"
    /\ mem.last_stop_reason = "max_iterations_reached"
    /\ mem.limits.max_iterations = 2
    /\ invoked = 2
    /\ launched.iteration = 0

\* C3: the evaluator reports a stop exactly when some ceiling is reached
\* (accumulator >= ceiling), and the reason is that of the first reached
\* dimension in the order iterations, cost, tokens, wall time.
C3_PriorityOrder ==
    LET r == StateStopCheck(mem)
    IN /\ r.stop = (IterationsReached(mem) \/ CostReached(mem)
                      \/ TokensReached(mem) \/ TimeReached(mem))
       /\ IterationsReached(mem) => r.reason = "max_iterations_reached"
       /\ (CostReached(mem) /\ ~IterationsReached(mem)) => r.reason = "max_cost_reached"
       /\ (TokensReached(mem) /\ ~IterationsReached(mem) /\ ~CostReached(mem))
             => r.reason = "max_tokens_reached"
       /\ (TimeReached(mem) /\ ~IterationsReached(mem) /\ ~CostReached(mem)
             /\ ~TokensReached(mem)) => r.reason = "max_time_reached"

\* the loop stopped on a state that had reached the iteration and the cost
\* ceiling at once, and reported the iteration one
C3_Witness ==
    /\ pc = "idle"
    /\ outcome = "returned"
    /\ IterationsReached(mem)
    /\ CostReached(mem)
    /\ mem.last_stop_reason = "max_iterations_reached"
    /\ mem.last_stop_detail = "iteration=1"

\* C4: no step of any launch or iteration lowers a cumulative accumulator,
\* in memory or in the state file.
C4_Step(a, b) ==
    /\ b.cumulative_cost_usd >= a.cumulative_cost_usd
    /\ b.cumulative_tokens >= a.cumulative_tokens
    /\ b.cumulative_wall_time_seconds >= a.cumulative_wall_time_seconds
C4_AccumulatorsMonotonic == [][C4_Step(mem, mem') /\ C4_Step(disk, disk')]_vars

\* a continued session whose reported total went down has been accounted
C4_Witness ==
    /\ pc = "persist"
    /\ disk.session_id = result_msg.session_id
    /\ result_msg.total_cost_usd # Unset
    /\ result_msg.total_cost_usd < disk.session_total_cost_usd
    /\ mem.cumulative_cost_usd = disk.cumulative_cost_usd


\* a step in which a launch was attempted / accepted
LaunchAttempt == launches' = launches + 1
LaunchAccepted == LaunchAttempt /\ outcome' = "none"
\* the state a launch loads
Loaded == IF fileExists THEN disk ELSE StateFromManifest(manifest, now)
Terminal(status) == status \in {STATE_STOPPED, STATE_FAILED}

\* C5 as stated: the persisted status moves only initialized -> running ->
\* {stopped | failed}, and never changes once it is stopped or failed.
C5_TerminalForever ==
    [][/\ Terminal(disk.status) => disk'.status = disk.status
       /\ disk'.status # disk.status =>
             \/ disk.status = STATE_INITIALIZED /\ disk'.status = STATE_RUNNING
             \/ disk.status = STATE_RUNNING /\ Terminal(disk'.status)]_vars

\* C5 amended: the loop changes the persisted status only from running to
\* stopped or failed, and that ends the launch; every other change of the
\* status is an accepted launch setting it to running.
C5_TerminalWithinLaunch ==
    [][/\ disk'.status # disk.status =>
             \/ LaunchAccepted /\ disk'.status = STATE_RUNNING
             \/ /\ ~LaunchAttempt
                /\ disk.status = STATE_RUNNING
                /\ Terminal(disk'.status)
                /\ pc' \in {"idle", "raising"}
       /\ (~LaunchAttempt /\ Terminal(disk.status)) => disk'.status = disk.status]_vars

\* a stopped run has been launched again and is running
C5_Witness ==
    /\ launches = 2
    /\ pc = "check"
    /\ launched.status = STATE_STOPPED
    /\ fileExists
    /\ disk.status = STATE_RUNNING

\* C6: a launch in run mode on a state file with a nonzero iteration or a
\* session raises and leaves the file exactly as it was.
C6_RunRejectedNoWrite ==
    [][(LaunchAttempt /\ mode' = "run" /\ fileExists
          /\ (disk.iteration > 0 \/ disk.session_id # NoneStr))
       => /\ outcome' = "raised"
          /\ pc' = "idle"
          /\ disk' = disk
          /\ fileExists' = fileExists]_vars

\* a run launch was refused on a stopped run that has completed an iteration
C6_Witness ==
    /\ launches = 2
    /\ mode = "run"
    /\ outcome = "raised"
    /\ launched.iteration > 0
    /\ disk.iteration > 0
    /\ Terminal(disk.status)
    /\ Len(disk.resume_history) = 1

\* the ceiling an additive extension must produce
Raised(ceiling, e) == IF ceiling = Unset THEN e ELSE ceiling + e

\* the extensions recorded in a history made of resume launches only
RECURSIVE SumOf(_, _, _)
SumOf(history, field, i) ==
    IF i > Len(history) THEN 0 ELSE history[i].details[field] + SumOf(history, field, i + 1)
OnlyResumes(history) == \A i \in 1..Len(history) : history[i].mode = "resume"
Summed(original, total) ==
    IF total = 0 THEN original ELSE IF original = Unset THEN total ELSE original + total

\* C7: each accepted resume with a positive extend_cost_usd, extend_time_minutes
\* or extend_tokens_total raises that ceiling by exactly the extension (or
\* establishes it), and after any number of resumes the ceiling is the
\* original one plus the sum of the extensions.
C7_ResumeAdditive ==
    /\ [][(LaunchAccepted /\ mode' = "resume") =>
            /\ cfg'.extend_cost_usd > 0 =>
                 disk'.limits.max_cost_usd
                    = Raised(Loaded.limits.max_cost_usd, cfg'.extend_cost_usd)
            /\ cfg'.extend_time_minutes > 0 =>
                 disk'.limits.max_time_minutes
                    = Raised(Loaded.limits.max_time_minutes, cfg'.extend_time_minutes)
            /\ cfg'.extend_tokens_total > 0 =>
                 disk'.limits.max_tokens_total
                    = Raised(Loaded.limits.max_tokens_total, cfg'.extend_tokens_total)]_vars
    /\ []((fileExists /\ OnlyResumes(disk.resume_history)) =>
            /\ disk.limits.max_cost_usd
                 = Summed(manifest.limits.max_cost_usd,
                          SumOf(disk.resume_history, "extend_cost_usd", 1))
            /\ disk.limits.max_time_minutes
                 = Summed(manifest.limits.max_time_minutes,
                          SumOf(disk.resume_history, "extend_time_minutes", 1))
            /\ disk.limits.max_tokens_total
                 = Summed(manifest.limits.max_tokens_total,
                          SumOf(disk.resume_history, "extend_tokens_total", 1)))

\* two resumes with extend_cost_usd = 1 on an original ceiling of 2 gave 4
C7_Witness ==
    /\ fileExists
    /\ Len(disk.resume_history) = 2
    /\ OnlyResumes(disk.resume_history)
    /\ disk.resume_history[1].details.extend_cost_usd = 1
    /\ disk.resume_history[2].details.extend_cost_usd = 1
    /\ manifest.limits.max_cost_usd = 2
    /\ disk.limits.max_cost_usd = 4

\* C8 as stated: after an accepted resume with extend_iterations = k > 0
\* the iteration ceiling is the current iteration count plus k, whether or
\* not a ceiling was set before.
C8_AlwaysRelativeToCurrent ==
    [][(LaunchAccepted /\ mode' = "resume" /\ cfg'.extend_iterations > 0) =>
          disk'.limits.max_iterations = Loaded.iteration + cfg'.extend_iterations]_vars

\* C8 amended: with no iteration ceiling set, the resume establishes it at
\* the current iteration count plus k; with a ceiling set, it raises that
\* ceiling by k.
C8_RelativeWhenUnset ==
    [][(LaunchAccepted /\ mode' = "resume" /\ cfg'.extend_iterations > 0) =>
          disk'.limits.max_iterations =
             IF Loaded.limits.max_iterations = Unset
               THEN Loaded.iteration + cfg'.extend_iterations
             ELSE Loaded.limits.max_iterations + cfg'.extend_iterations]_vars

\* a run without iteration ceiling that completed an iteration was resumed
\* with extend_iterations = 1
C8_Witness ==
    /\ pc = "check"
    /\ invoked = 0
    /\ mode = "resume"
    /\ cfg.extend_iterations = 1
    /\ launched.limits.max_iterations = Unset
    /\ launched.iteration = 1
    /\ disk.limits.max_iterations = 2

\* C9: an accepted resume with new_session_from_checkpoint clears session_id
\* and zeroes session_total_cost_usd, leaves iteration and the cumulative
\* accumulators as loaded, and the launch's first query() gets no session.
C9_FreshSessionFrame ==
    /\ [][(LaunchAccepted /\ mode' = "resume" /\ cfg'.new_session_from_checkpoint) =>
            /\ disk'.session_id = NoneStr
            /\ disk'.session_total_cost_usd = 0
            /\ disk'.iteration = Loaded.iteration
            /\ disk'.cumulative_cost_usd = Loaded.cumulative_cost_usd
            /\ disk'.cumulative_tokens = Loaded.cumulative_tokens
            /\ disk'.cumulative_wall_time_seconds = Loaded.cumulative_wall_time_seconds
            /\ mem' = disk']_vars
    /\ []((pc = "stream" /\ invoked = 1 /\ mode = "resume"
             /\ cfg.new_session_from_checkpoint) => call.resume = NoneStr)

\* a run that had a session and spent money was resumed with a fresh
\* session and is in its first conversation
C9_Witness ==
    /\ pc = "stream"
    /\ invoked = 1
    /\ mode = "resume"
    /\ cfg.new_session_from_checkpoint
    /\ launched.session_id # NoneStr
    /\ call.resume = NoneStr
    /\ mem.session_total_cost_usd = 0
    /\ mem.cumulative_cost_usd > 0
    /\ mem.iteration = 1

\* C10: for a result that reports a total, the cost added to
\* cumulative_cost_usd is max(total - previous session total, 0) when the
\* result's session is the state's current session, and the whole total
\* otherwise.
C10_CostDelta ==
    [][(pc = "stream" /\ pc' = "persist" /\ result_msg'.total_cost_usd # Unset) =>
          mem'.cumulative_cost_usd - mem.cumulative_cost_usd =
             IF result_msg'.session_id = mem.session_id
               THEN Max(result_msg'.total_cost_usd - mem.session_total_cost_usd, 0)
             ELSE result_msg'.total_cost_usd]_vars

\* a continued session with previous total 1 reported 2 and 1 was added
C10_Witness ==
    /\ pc = "persist"
    /\ disk.session_id = result_msg.session_id
    /\ disk.session_total_cost_usd = 1
    /\ result_msg.total_cost_usd = 2
    /\ mem.cumulative_cost_usd = disk.cumulative_cost_usd + 1

\* C11: after every completed iteration session_total_cost_usd is the total
\* the service reported last for the session now in session_id (zero when
\* it has reported none for it), whatever sessions and totals the results
\* carried.
C11_SessionTotalIsLastReported ==
    pc \in {"persist", "classify"} =>
        mem.session_total_cost_usd = reported[mem.session_id]

\* a failure path has recorded its reason and the error's text
FailureRecorded(s) ==
    /\ s.status = STATE_FAILED
    /\ \/ s.last_stop_reason = "runtime_exception" /\ s.last_stop_detail \in ErrorTexts
       \/ /\ s.last_stop_reason = "missing_result_message"
          /\ s.last_stop_detail = "SDK stream ended without ResultMessage"

\* a launch that entered the loop has raised to its caller
LoopRaised == pc = "idle" /\ outcome = "raised" /\ invoked > 0

\* C12: when the stream raises or ends without a result, the state file
\* holds status failed with the reason and the error text before the error
\* is raised (while it is pending and after it was raised), and a launch
\* that has raised takes no further step.
C12_FailedPersistedBeforeRaise ==
    /\ pc = "raising" =>
          /\ outcome = "none"
          /\ fileExists
          /\ FailureRecorded(disk)
          /\ disk = AsDict(mem)
    /\ LoopRaised => FailureRecorded(disk) /\ disk = AsDict(mem)
    /\ outcome = "raised" => pc = "idle"

\* the second invocation of a launch ended without a result and the launch
\* raised, after one completed iteration
C12_Witness ==
    /\ LoopRaised
    /\ invoked = 2
    /\ events = "run.error"
    /\ disk.last_stop_reason = "missing_result_message"
    /\ disk.iteration = 1

\* C13: whenever run() has returned normally, the state it returned has
\* status stopped (a failed state is only ever left by raising).
C13_ReturnsOnlyStopped ==
    (pc = "idle" /\ outcome = "returned") => mem.status = STATE_STOPPED

\* C14: a checkpoint write that fails, for a PreCompact hook call or for an
\* inline compact_boundary message, leaves the run running, the state file
\* untouched and the stream being consumed.
C14_CheckpointFailureIsolated ==
    [][(pc \in {"hook", "inline"} /\ ~fs_ok) =>
          /\ pc' = "stream"
          /\ mem'.status = STATE_RUNNING
          /\ disk' = disk]_vars

\* C15: a compaction signal (hook call or inline message) is taken only
\* while the stream is being consumed; the step after it is the checkpoint
\* write, which, when it completes, is logged with the file written before
\* consumption goes on; no result is accounted and no further signal is
\* taken while a signal's checkpoint is outstanding.
C15_CheckpointBeforeProceeding ==
    [][/\ pc' \in {"hook", "inline"} => pc \in {"stream", pc'}
       /\ pc \in {"hook", "inline"} => pc' \in {"stream", "raising", pc}
       /\ (pc \in {"hook", "inline"} /\ fs_ok) =>
             /\ pc' = "stream"
             /\ events' = "checkpoint.precompact"
             /\ mem' = mem
       /\ pc' = "persist" => pc = "stream"]_vars

\* in the second invocation of a launch a checkpoint has been written and
\* the stream is being consumed again
C15_Witness ==
    /\ pc = "stream"
    /\ invoked = 2
    /\ events = "checkpoint.precompact"

\* the last iteration accounted in memory by any launch, and the iteration
\* count a later launch can read from the state file
Completed == IF iterlog = <<>> THEN 0 ELSE iterlog[Len(iterlog)]
Persisted == IF fileExists /\ intact THEN disk.iteration ELSE 0

\* C16: at every point at which the process can be killed, and after it was
\* killed, the state file accounts for every completed iteration except at
\* most the one in flight.
C16_CrashLosesAtMostOne == Completed - Persisted <= 1

\* C17: at the classification step the state file holds the accounted
\* iteration; a result with subtype error_max_budget_usd or error_max_turns
\* ends the launch with status stopped, any other result flagged as an error
\* ends it with status failed, and every other result leads back to the
\* budget evaluation with the state untouched.
C17_ClassificationDecides ==
    /\ [][pc = "classify" =>
            IF result_msg.subtype \in {"error_max_budget_usd", "error_max_turns"}
              THEN pc' = "idle" /\ mem'.status = STATE_STOPPED /\ disk' = AsDict(mem')
            ELSE IF result_msg.is_error
              THEN pc' = "idle" /\ mem'.status = STATE_FAILED /\ disk' = AsDict(mem')
            ELSE pc' = "check" /\ mem' = mem /\ disk' = disk]_vars
    /\ [](pc = "classify" => disk = AsDict(mem) /\ disk.iteration = call.iteration)

\* the second iteration of a run ended with error_max_budget_usd, not
\* flagged as an error, and the run stopped
C17_Witness ==
    /\ pc = "idle"
    /\ outcome = "returned"
    /\ mem.iteration = 2
    /\ mem.last_result_subtype = "error_max_budget_usd"
    /\ mem.last_stop_reason = "sdk_max_budget_reached"
    /\ mem.status = STATE_STOPPED

IsPrefix(a, b) == Len(a) <= Len(b) /\ \A i \in 1..Len(a) : b[i] = a[i]

\* C19: an accepted launch leaves the loaded resume_history as a prefix and
\* adds exactly one entry, of the launch's mode, at its end; no other step
\* (rejected launch, iteration, save, stop, failure) changes the history in
\* memory or in the state file.
C19_HistoryAppendOnly ==
    [][IF LaunchAccepted
         THEN /\ Len(disk'.resume_history) = Len(Loaded.resume_history) + 1
              /\ IsPrefix(Loaded.resume_history, disk'.resume_history)
              /\ disk'.resume_history[Len(disk'.resume_history)].mode = mode'
              /\ mem'.resume_history = disk'.resume_history
         ELSE /\ mem'.resume_history = mem.resume_history
              /\ disk'.resume_history = disk.resume_history]_vars

\* a run launch followed by a resume launch, with iterations in between
C19_Witness ==
    /\ fileExists
    /\ Len(disk.resume_history) = 2
    /\ disk.resume_history[1].mode = "run"
    /\ disk.resume_history[1].details = [kind |-> "fresh_start"]
    /\ disk.resume_history[2].mode = "resume"
    /\ disk.resume_history[1].timestamp < disk.resume_history[2].timestamp
    /\ disk.iteration = 2

\* C20: after a launch in run mode was accepted with an iteration ceiling of
\* 0, the only step of the loop is the stop: no query() call is made, and
\* once the launch is over it has returned status stopped, reason
\* max_iterations_reached, iteration 0, with the state file and the events
\* log on disk.
C20_ZeroIterationsStopsAtOnce ==
    (launches > 0 /\ mode = "run" /\ outcome # "raised"
       /\ mem.limits.max_iterations = 0)
    => /\ invoked = 0
       /\ pc \in {"check", "idle"}
       /\ pc = "check" => StateStopCheck(mem).stop
       /\ fileExists
       /\ events # NoneStr
       /\ pc = "idle" =>
             /\ outcome = "returned"
             /\ mem.status = STATE_STOPPED
             /\ mem.last_stop_reason = "max_iterations_reached"
             /\ mem.last_stop_detail = "iteration=0"
             /\ mem.iteration = 0
             /\ disk = AsDict(mem)
             /\ events = "run.stop"

\* the first launch of a run, with max_iterations = 0 given on the command
\* line, has returned
C20_Witness ==
    /\ pc = "idle"
    /\ launches = 1
    /\ mode = "run"
    /\ cfg.max_iterations = 0
    /\ outcome = "returned"
    /\ invoked = 0
    /\ mem.last_stop_reason = "max_iterations_reached"
    /\ fileExists
    /\ events = "run.stop"

\* C27: the iteration log holds no record of an iteration number greater
\* than the iteration count in the state file (the state is saved before
\* the summary is appended).
C27_LogNeverAheadOfState ==
    \A i \in 1..Len(iterlog) : iterlog[i] <= disk.iteration

\* the fields of the state file a failed iteration writes
FailureFrame(before, after) ==
    after = [before EXCEPT !.status = after.status,
                           !.stopped_at = after.stopped_at,
                           !.last_stop_reason = after.last_stop_reason,
                           !.last_stop_detail = after.last_stop_detail,
                           !.updated_at = after.updated_at]

\* C28: when the stream raises or ends without a result, the state file
\* after the failure differs from the one before the iteration only in
\* status, stopped_at, last_stop_reason, last_stop_detail and updated_at, and
\* the failed iteration's number is the persisted count plus one, which is
\* the number the first invocation of a later launch gets again.
C28_FailedIterationFrame ==
    /\ [][pc' = "raising" =>
            /\ FailureFrame(disk, disk')
            /\ disk'.status = STATE_FAILED
            /\ disk' = AsDict(mem')
            /\ call.iteration = disk'.iteration + 1
            /\ iterlog' = iterlog]_vars
    /\ [](pc \in {"stream", "hook", "inline"} =>
            /\ disk = AsDict(mem)
            /\ call.iteration = disk.iteration + 1)

\* the second iteration of a run failed, the run was resumed, and the
\* resumed launch is running iteration 2 again
C28_Witness ==
    /\ pc = "stream"
    /\ launches = 2
    /\ mode = "resume"
    /\ launched.status = STATE_FAILED
    /\ launched.iteration = 1
    /\ mem.last_stop_reason \in {"runtime_exception", "missing_result_message"}
    /\ call.iteration = 2
    /\ iterlog = <<1>>

\* the state a launch loads passes the guard of the `run` branch
FreshEnough(s) == s.iteration = 0 /\ s.session_id = NoneStr

\* C29 as stated: a launch in run mode is accepted exactly when the loaded
\* state has iteration = 0 and no session id.
C29_RunAcceptedIffFresh ==
    [][(LaunchAttempt /\ mode' = "run") =>
          (LaunchAccepted <=> FreshEnough(Loaded))]_vars

\* C29 amended: for a run whose provider is claude, a launch in run mode is
\* accepted exactly when the loaded state has iteration = 0 and no session
\* id, whatever its status; the accepted launch sets status running, puts
\* each absolute override given over the persisted ceiling and appends one
\* run entry to the loaded resume_history. For any other provider the
\* launch is refused.
C29_RunAcceptedIffFreshClaude ==
    [][(LaunchAttempt /\ mode' = "run") =>
          /\ LaunchAccepted <=> (Loaded.provider = "claude" /\ FreshEnough(Loaded))
          /\ LaunchAccepted =>
                /\ disk'.status = STATE_RUNNING
                /\ disk'.limits.max_cost_usd =
                      IF cfg'.max_cost_usd # Unset THEN cfg'.max_cost_usd
                      ELSE Loaded.limits.max_cost_usd
                /\ disk'.limits.max_time_minutes =
                      IF cfg'.max_time_minutes # Unset THEN cfg'.max_time_minutes
                      ELSE Loaded.limits.max_time_minutes
                /\ disk'.limits.max_tokens_total =
                      IF cfg'.max_tokens_total # Unset THEN cfg'.max_tokens_total
                      ELSE Loaded.limits.max_tokens_total
                /\ disk'.limits.max_iterations =
                      IF cfg'.max_iterations # Unset THEN cfg'.max_iterations
                      ELSE Loaded.limits.max_iterations
                /\ Len(disk'.resume_history) = Len(Loaded.resume_history) + 1
                /\ disk'.resume_history[Len(disk'.resume_history)].mode = "run"]_vars

\* a run whose first invocation failed was launched with run again, with
\* new ceilings, and is running
C29_Witness ==
    /\ launches = 2
    /\ pc = "check"
    /\ mode = "run"
    /\ launched.status = STATE_FAILED
    /\ launched.iteration = 0
    /\ cfg.max_iterations = 1
    /\ disk.status = STATE_RUNNING
    /\ disk.limits.max_iterations = 1
    /\ Len(disk.resume_history) = 2
    /\ disk.resume_history[2].mode = "run"

NoCeiling(s) ==
    /\ s.limits.max_iterations = Unset
    /\ s.limits.max_cost_usd = Unset
    /\ s.limits.max_tokens_total = Unset
    /\ s.limits.max_time_minutes = Unset

\* C30: with an iteration ceiling configured (within the invocations
\* modelled) and every stream ending, a launch that entered the loop comes to
\* its end, returned or raised, having made at most ceiling - (iteration at
\* launch) invocations; with no ceiling configured the loop never stops by
\* itself: it returns only on a result the service flags (sdk_ reasons) and
\* otherwise ends by raising.
C30_Terminates ==
    /\ (pc # "idle" /\ mem.limits.max_iterations # Unset
          /\ mem.limits.max_iterations <= MaxInvocations) ~> (pc = "idle")
    /\ [](mem.limits.max_iterations # Unset =>
            invoked <= Max(mem.limits.max_iterations - launched.iteration, 0))
    /\ [](NoCeiling(mem) =>
            /\ pc = "check" => ~StateStopCheck(mem).stop
            /\ (pc = "idle" /\ outcome = "returned") =>
                  mem.last_stop_reason \in {"sdk_max_budget_reached",
                                            "sdk_max_turns_reached", "sdk_error"})

\* a run resumed at iteration 1 under ceiling 2 made its one invocation,
\* which took a compaction signal, and stopped at the ceiling
C30_Witness ==
    /\ pc = "idle"
    /\ outcome = "returned"
    /\ launches = 2
    /\ launched.iteration = 1
    /\ mem.limits.max_iterations = 2
    /\ invoked = 1
    /\ mem.last_stop_reason = "max_iterations_reached"
    /\ mem.cumulative_cost_usd > 0

\* C24: a runner has at most one invocation in flight: a query() call is
\* made only when every earlier call of the launch has been accounted. Two
\* runners on one run directory are not serialized: every save of either
\* replaces the whole document with the saver's own in-memory state,
\* whatever the file held.
C24_LastWriterWins ==
    /\ [][/\ mem'.updated_at # mem.updated_at => disk' = AsDict(mem')
          /\ peer'.mem.updated_at # peer.mem.updated_at => disk' = AsDict(peer'.mem)
          /\ disk' # disk => (disk' = AsDict(mem') \/ disk' = AsDict(peer'.mem))]_vars
    /\ [](/\ pc = "check" => invoked = mem.iteration - launched.iteration
          /\ pc = "stream" =>
                /\ invoked = mem.iteration - launched.iteration + 1
                /\ call.iteration = mem.iteration + 1
          /\ peer.pc = "stream" => peer.iteration = peer.mem.iteration + 1)

\* both runners were launched on the fresh run and each completed and saved
\* its iteration 1; the first runner's save (cost 2) was overwritten by the
\* second's (cost 1): the file shows one iteration and cost 1, the log two
\* records numbered 1
C24_Witness ==
    /\ pc = "check"
    /\ peer.pc = "check"
    /\ mem.iteration = 1
    /\ peer.mem.iteration = 1
    /\ mem.cumulative_cost_usd = 2
    /\ peer.mem.cumulative_cost_usd = 1
    /\ disk = AsDict(peer.mem)
    /\ disk # AsDict(mem)
    /\ disk.cumulative_cost_usd = 1
    /\ iterlog = <<1, 1>>

\* C26: in a resolved configuration the network is the caller's override
\* whenever one is given (none included); without one it is default for
\* provider claude with a manifest network of none (or no network key), and
\* the manifest's network otherwise; mode, runtime and the bypass flag are
\* the caller's override when given and the manifest's value (or the
\* default) otherwise; the image is the manifest's.
C26_NetworkRuleYieldsToOverride ==
    LET o == execution.overrides
        b == execution.block
        c == execution.config
    IN (c # Unresolved /\ c.ok) =>
          /\ o.network # Absent => c.network = o.network
          /\ (o.network = Absent /\ execution.provider \in {"claude", "Claude"}
                /\ b.network \in {"none", Absent}) => c.network = "default"
          /\ (o.network = Absent /\ execution.provider \notin {"claude", "Claude"}) =>
                c.network = (IF b.network = Absent THEN "none" ELSE b.network)
          /\ (o.network = Absent /\ b.network = "default") => c.network = "default"
          /\ c.mode = (IF o.mode # Absent THEN o.mode
                       ELSE IF b.mode = Absent THEN "host" ELSE b.mode)
          /\ c.runtime = (IF o.runtime # Absent THEN o.runtime
                          ELSE IF b.runtime = Absent THEN "docker" ELSE b.runtime)
          /\ c.use_bypass_permissions =
                (IF o.use_bypass_permissions # Absent THEN o.use_bypass_permissions = "True"
                 ELSE b.use_bypass_permissions = "True")
          /\ c.image = (IF b.image = Absent THEN DEFAULT_CONTAINER_IMAGE ELSE b.image)

\* provider claude, manifest network none, container mode from the
\* manifest: an explicit override of none was resolved to none
C26_Witness ==
    /\ execution.config # Unresolved
    /\ execution.config.ok
    /\ execution.provider = "claude"
    /\ execution.block.network = "none"
    /\ execution.block.mode = "container"
    /\ execution.overrides.network = "none"
    /\ execution.overrides.mode = Absent
    /\ execution.config.network = "none"
    /\ execution.config.mode = "container"

\* ---------------------------------------------------------------- C21
\* the host command has started a container (running, exited, or already
\* reported)
ContainerLaunched == host.pc \in {"container", "exited"} \/ host.exit # Unset
InspectedFresh == host.found.exists /\ host.found.label = host.sources

\* C21: a container is only ever launched on an image whose fingerprint label
\* equals the fingerprint of the sources: an image found with that label is
\* reused without a build, any other (missing, unlabelled, stale) is rebuilt
\* exactly once and stamped before the launch, and a build that fails ends
\* the command without a launch.
C21_FreshImageBeforeLaunch ==
    /\ host.builds <= 1
    /\ host.pc \in {"start", "container", "exited"} =>
          /\ host.image = Image(TRUE, host.sources)
          /\ IF InspectedFresh THEN host.builds = 0 /\ host.build_rc = Unset
                               ELSE host.builds = 1 /\ host.build_rc = 0
    /\ ContainerLaunched =>
          IF InspectedFresh THEN host.builds = 0 ELSE host.builds = 1 /\ host.build_rc = 0
    /\ host.pc = "build" => ~InspectedFresh /\ host.builds = 1
    /\ host.build_rc \notin {Unset, 0} =>
          /\ host.pc = "idle"
          /\ host.outcome = "raised"
          /\ ~ContainerLaunched

\* a stale image was found, rebuilt and stamped, and the container runs on it
C21_Witness ==
    /\ host.pc = "container"
    /\ host.found = Image(TRUE, StaleFingerprint)
    /\ host.builds = 1
    /\ host.image = Image(TRUE, Fingerprint)
    /\ launches > host.base

\* a fresh image was found and the container runs on it without a build
C21_WitnessReuse ==
    /\ host.pc = "container"
    /\ host.found = Image(TRUE, Fingerprint)
    /\ host.builds = 0

\* ---------------------------------------------------------------- C22
\* the host command raised because the image build or the container worker
\* exited with a nonzero code
BoundaryFailure ==
    /\ host.pc = "idle"
    /\ host.outcome = "raised"
    /\ host.build_rc \notin {Unset, 0} \/ host.exit \notin {Unset, 0}

\* C22: when the container worker or the image build exits with a nonzero
\* code, the state file holds a failed state with reason and detail by the
\* time the error is raised to the caller.
C22_BoundaryFailurePersisted ==
    BoundaryFailure =>
        /\ fileExists
        /\ disk.status = STATE_FAILED
        /\ disk.last_stop_reason # NoneStr
        /\ disk.last_stop_detail # NoneStr

\* ---------------------------------------------------------------- C23
\* a step of the host command
HostStep == host' # host

\* C23: while delegated to a container the host neither reads nor writes the
\* state file: no host step changes the file, the file only changes while the
\* container runs and then by the worker, the host reads it back only after
\* exit code 0, and any other exit code is raised to the caller without a
\* read.
C23_OwnershipTransfers ==
    /\ [][/\ HostStep => disk' = disk /\ fileExists' = fileExists /\ intact' = intact
          /\ (disk' # disk \/ fileExists' # fileExists) =>
                host.pc = "container" /\ host' = host
          /\ (host'.read /\ ~host.read) => host.pc = "exited" /\ host.exit = 0]_vars
    /\ [](host.pc \in {"ensure", "build", "start", "container", "exited"} => ~host.read)
    /\ [](host.read => host.pc = "idle" /\ host.exit = 0 /\ host.outcome = "returned")
    /\ [](host.pc = "idle" /\ host.exit \notin {Unset, 0} =>
            host.outcome = "raised" /\ ~host.read)

\* the worker ran, changed the state file and exited 0; the host has read it
C23_Witness ==
    /\ host.read
    /\ host.exit = 0
    /\ disk.iteration > 0

\* the worker exited nonzero after writing a failed state; the host raised
\* without reading it
C23_WitnessFailure ==
    /\ host.pc = "idle"
    /\ host.exit = 1
    /\ host.outcome = "raised"
    /\ ~host.read
    /\ disk.status = STATE_FAILED

\* ---------------------------------------------------------------- C25
\* what the host command would make of the run state in-process, with the
\* configuration it was given
InProcess ==
    LoadOrInitializeState(IF fileExists THEN FromDict(disk)
                          ELSE StateFromManifest(manifest, now),
                          host.mode, host.cfg, now)

C25_WitnessMixed ==
    /\ host.pc = "container"
    /\ launches > host.base
    /\ host.mode = "run"
    /\ host.cfg = MixedConfig
    /\ WorkerConfig(host.args) # host.cfg
    /\ pc = "check"
    /\ mem.limits.max_cost_usd = MixedConfig.max_cost_usd

====
